---- MODULE Spec2Model ----
(***************************************************************************)
(* Model of the ParagraphImage block tool (src/src/index.js): the block's  *)
(* data record, the DOM state of its image region and editable regions,    *)
(* the upload callbacks, the delayed loader-removal timers, save, render   *)
(* and validate.  The Uploader module (./uploader) is imported by index.js *)
(* but is not among the sources; its behaviour is taken from the           *)
(* specification's description of the upload coordinator.                  *)
(***************************************************************************)
EXTENDS Integers, Sequences, FiniteSets, TLC

\* ------------------------------------------------------------------ bounds

\* Number of upload attempts (image clicks) a behaviour may start.
MaxAttempts == 2

\* Number of edits of the three editable regions a behaviour may make.
MaxEdits == 1

\* ------------------------------------------------------------------ values

\* JavaScript strings are sequences of characters.
Space == " "
WhiteSpace == {Space}

\* Contents the editable regions and the saved fields are drawn from.
Contents == {<<>>, <<Space>>, <<Space, "a", Space>>}

\* A field of a JavaScript object that may be absent (undefined).
Absent == [def |-> FALSE, val |-> <<>>]
Str(s) == [def |-> TRUE, val |-> s]

\* How an undefined url prints inside the template literal of setImage.
NoUrl == "undefined"
Urls == {"u1", "u2"}

\* data.image: undefined (key absent), null, or a file record.
Undefined == [tag |-> "undefined", url |-> NoUrl]
Null == [tag |-> "null", url |-> NoUrl]
File(u) == [tag |-> "file", url |-> u]

\* JavaScript truthiness of an image value and of a url.
TruthyImage(img) == img.tag = "file"
TruthyUrl(u) == u # NoUrl /\ u # ""

\* style.background of the image region.
BgUnset == [kind |-> "unset", url |-> NoUrl]
BgNone == [kind |-> "none", url |-> NoUrl]
BgPlaceholder == [kind |-> "placeholder", url |-> NoUrl]
BgUrl(u) == [kind |-> "url", url |-> u]

\* DOM state before render(): this.nodes holds nulls.
NoNodes ==
  [text |-> <<>>, title |-> <<>>, description |-> <<>>,
   bg |-> BgUnset, loader |-> FALSE]

Attempts == 1..MaxAttempts

NewAttempt == [phase |-> "idle", previewed |-> FALSE, ok |-> 0, err |-> 0, url |-> NoUrl]

VARIABLES
  pc,       \* lifecycle of the block: "new", "threw", "constructed", "rendered", "removed"
  config,   \* this.config
  cfgIn,    \* the config argument of the constructor
  data,     \* this.data
  nodes,    \* content of this.nodes.{text,title,description}, style and class of this.nodes.image
  att,      \* per upload attempt: phase, preview fired, callbacks invoked, url of its success
  notes,    \* per upload attempt: api.notifier.show calls of style 'error'
  timers,   \* pending setTimeout callbacks, in scheduling order
  threw,    \* a timer callback or event listener raised an uncaught TypeError
  edits,    \* number of region edits made
  vin,      \* argument of validate
  vout,     \* result of validate: "none", "true", "false"
  key       \* code of the last keyup event delivered to the text region, or "none"

vars == <<pc, config, cfgIn, data, nodes, att, notes, timers, threw, edits, vin, vout, key>>

\* ------------------------------------------------------------ constructor

Fields ==
  {"endpoint", "field", "types", "additionalRequestData", "additionalRequestHeaders",
   "textPlaceholder", "titlePlaceholder", "descriptionPlaceholder"}

\* A config field the caller left out reads as undefined.
FieldAbsent == "<undefined>"

\* The value a caller supplies for field f when it supplies one.
Custom(f) == "custom-" \o f

Default ==
  [f \in Fields |->
     CASE f = "endpoint" -> ""
       [] f = "field" -> "image"
       [] f = "types" -> "image/*"
       [] f = "additionalRequestData" -> "{}"
       [] f = "additionalRequestHeaders" -> "{}"
       [] f = "textPlaceholder" -> "Text"
       [] f = "titlePlaceholder" -> "Title"
       [] f = "descriptionPlaceholder" -> "Description"]

\* The config argument: missing altogether, or an object holding any subset of the fields.
NoConfig == [present |-> FALSE, fields |-> [f \in Fields |-> FieldAbsent]]
ConfigInputs ==
  {NoConfig} \cup
  {[present |-> TRUE, fields |-> [f \in Fields |-> IF f \in S THEN Custom(f) ELSE FieldAbsent]] :
     S \in SUBSET Fields}
EmptyConfig == [present |-> TRUE, fields |-> [f \in Fields |-> FieldAbsent]]

\* a || b on config values.
JsOr(v, d) == IF v # FieldAbsent /\ v # "" THEN v ELSE d

\* this.config = { endpoint: config.endpoint || '', ... }
ResolveConfig(cfg) == [f \in Fields |-> JsOr(cfg.fields[f], Default[f])]

\* constructor({ data, config, api }): reading a property of an undefined config
\* raises a TypeError; this.data = data keeps the saved data as it is.
Constructor ==
  /\ pc = "new"
  /\ IF cfgIn.present
       THEN /\ config' = ResolveConfig(cfgIn)
            /\ pc' = "constructed"
       ELSE /\ config' = config
            /\ pc' = "threw"
  /\ UNCHANGED <<cfgIn, data, nodes, att, notes, timers, threw, edits, vin, vout, key>>

\* ---------------------------------------------------------------- strings

RECURSIVE TrimStart(_)
TrimStart(s) ==
  IF s # <<>> /\ Head(s) \in WhiteSpace THEN TrimStart(Tail(s)) ELSE s

RECURSIVE TrimEnd(_)
TrimEnd(s) ==
  IF s # <<>> /\ s[Len(s)] \in WhiteSpace THEN TrimEnd(SubSeq(s, 1, Len(s) - 1)) ELSE s

\* String.prototype.trim
Trim(s) == TrimEnd(TrimStart(s))

\* (field || '') on a string field that may be absent.
OrEmpty(f) == IF f.def /\ f.val # <<>> THEN f.val ELSE <<>>

\* ------------------------------------------------------------ image region

\* setImage(url): the url is interpolated into the background, whatever it is.
setImage(url) == BgUrl(url)

\* setImagePlaceholder()
setImagePlaceholder == BgPlaceholder

\* The image branch of render(): if (image) setImage(image.url) else setImagePlaceholder().
RenderImage(img) == IF TruthyImage(img) THEN setImage(img.url) ELSE setImagePlaceholder

\* render(): the three regions are filled from the data, the image region is styled.
RenderNodes(d) ==
  [text |-> OrEmpty(d.text),
   title |-> OrEmpty(d.title),
   description |-> OrEmpty(d.description),
   bg |-> RenderImage(d.image),
   loader |-> FALSE]

Render ==
  /\ pc = "constructed"
  /\ nodes' = RenderNodes(data)
  /\ pc' = "rendered"
  /\ UNCHANGED <<config, cfgIn, data, att, notes, timers, threw, edits, vin, vout, key>>

\* The visual state of the image region, read off its class list and style.
VisualStateOf(n) ==
  CASE n.loader -> "Loading"
    [] ~n.loader /\ n.bg.kind = "url" -> "Loaded"
    [] ~n.loader /\ n.bg.kind \in {"placeholder", "unset"} -> "Empty"
    [] OTHER -> "Blank"

VisualState == VisualStateOf(nodes)

\* ------------------------------------------------------------------ upload

\* Responses of the upload endpoint: a transport failure, or a JSON body
\* { success: 0|1, file: { url, ... } } whose file or url may be missing.
Responses ==
  [net : {TRUE}, success : {0}, file : {Undefined}] \cup
  [net : {FALSE}, success : {0, 1},
   file : {Undefined, File(NoUrl)} \cup {File(u) : u \in Urls}]

\* The response is the well-formed success { success: 1, file: { url } }.
WellFormed(r) == ~r.net /\ r.success = 1 /\ TruthyImage(r.file) /\ TruthyUrl(r.file.url)

\* Click on the image region: uploader.uploadSelectedFile({ onPreview }) opens the file
\* prompt, whatever the state of the block.  The prompt is modal: no click reaches
\* the region while one is open.
ImageClick ==
  /\ pc = "rendered"
  /\ \E a \in Attempts :
       /\ att[a].phase = "idle"
       /\ \A b \in Attempts : b < a => att[b].phase \notin {"idle", "prompt"}
       /\ att' = [att EXCEPT ![a].phase = "prompt"]
  /\ UNCHANGED <<pc, config, cfgIn, data, nodes, notes, timers, threw, edits, vin, vout, key>>

\* The user dismisses the file prompt: nothing is uploaded and no callback fires.
CancelPrompt ==
  /\ \E a \in Attempts :
       /\ att[a].phase = "prompt"
       /\ att' = [att EXCEPT ![a].phase = "cancelled"]
  /\ UNCHANGED <<pc, config, cfgIn, data, nodes, notes, timers, threw, edits, vin, vout, key>>

\* addLoader(): background 'none', loader class added.
addLoader == nodes' = [nodes EXCEPT !.bg = BgNone, !.loader = TRUE]

\* A file is chosen: the uploader calls onPreview (addLoader) and sends the request.
FilePicked ==
  /\ \E a \in Attempts :
       /\ att[a].phase = "prompt"
       /\ att' = [att EXCEPT ![a].phase = "sending", ![a].previewed = TRUE]
  /\ addLoader
  /\ UNCHANGED <<pc, config, cfgIn, data, notes, timers, threw, edits, vin, vout, key>>

showFullImageNow(a) ==
  /\ timers' = timers
  /\ nodes' = [nodes EXCEPT !.loader = FALSE, !.bg = setImage(data'.image.url)]

\* showFullImage(): setTimeout(..., LOADER_DELAY); the callback runs later (TimerFire),
\* nothing is done to the region now.
showFullImage(a) ==
  /\ timers' = Append(timers, [kind |-> "showFullImage", att |-> a])
  /\ UNCHANGED nodes

\* stopLoading(): setTimeout(..., LOADER_DELAY); the callback runs later (TimerFire),
\* nothing is done to the region now.
stopLoading(a) ==
  /\ timers' = Append(timers, [kind |-> "stopLoading", att |-> a])
  /\ UNCHANGED nodes

\* onUpload(response): a body with success, file and file.url is stored and shown;
\* any other body is dropped without a word.
onUpload(a, r) ==
  IF r.success # 0 /\ TruthyImage(r.file) /\ TruthyUrl(r.file.url)
    THEN /\ data' = [data EXCEPT !.image = r.file]
         /\ showFullImage(a)
         /\ UNCHANGED notes
    ELSE UNCHANGED <<data, timers, notes, nodes>>

uploadingFailedSilent(a) ==
  /\ stopLoading(a)
  /\ UNCHANGED <<notes, data>>

\* uploadingFailed(errorMessage): stopLoading() and one notifier.show of style 'error'.
uploadingFailed(a) ==
  /\ stopLoading(a)
  /\ notes' = [notes EXCEPT ![a] = @ + 1]
  /\ UNCHANGED data

CompleteEarly(a, r) ==
  /\ att[a].phase \in {"prompt", "sending"}
  /\ IF WellFormed(r)
       THEN /\ att' = [att EXCEPT ![a].phase = "called", ![a].ok = @ + 1, ![a].url = r.file.url]
            /\ onUpload(a, r)
       ELSE /\ att' = [att EXCEPT ![a].phase = "called", ![a].err = @ + 1]
            /\ uploadingFailed(a)

CompleteTwice(a, r) ==
  /\ att[a].phase \in {"sending", "called"}
  /\ att[a].ok + att[a].err < 2
  /\ IF WellFormed(r)
       THEN /\ att' = [att EXCEPT ![a].phase = "called", ![a].ok = @ + 1, ![a].url = r.file.url]
            /\ onUpload(a, r)
       ELSE /\ att' = [att EXCEPT ![a].phase = "called", ![a].err = @ + 1]
            /\ uploadingFailed(a)

\* The request of attempt a completes with response r: the uploader reports a
\* well-formed success through onUpload and everything else through onError.
Complete(a, r) ==
  /\ att[a].phase = "sending"
  /\ IF WellFormed(r)
       THEN /\ att' = [att EXCEPT ![a].phase = "called", ![a].ok = @ + 1, ![a].url = r.file.url]
            /\ onUpload(a, r)
       ELSE /\ att' = [att EXCEPT ![a].phase = "called", ![a].err = @ + 1]
            /\ uploadingFailed(a)

Response ==
  /\ \E a \in Attempts, r \in Responses : Complete(a, r)
  /\ UNCHANGED <<pc, config, cfgIn, threw, edits, vin, vout, key>>

\* The two callbacks the constructor hands to the Uploader, invoked by whoever holds
\* them: onUpload with any response body, or onError.
Deliver(a, r, cb) ==
  /\ att[a].phase = "sending"
  /\ IF cb = "onUpload"
       THEN /\ ~r.net
            /\ att' = [att EXCEPT ![a].phase = "called", ![a].ok = @ + 1, ![a].url = r.file.url]
            /\ onUpload(a, r)
       ELSE /\ att' = [att EXCEPT ![a].phase = "called", ![a].err = @ + 1]
            /\ uploadingFailed(a)

Delivery ==
  /\ \E a \in Attempts, r \in Responses, cb \in {"onUpload", "onError"} : Deliver(a, r, cb)
  /\ UNCHANGED <<pc, config, cfgIn, threw, edits, vin, vout, key>>

\* The callback scheduled by showFullImage: the loader class is removed, then
\* this.data.image.url is read, which raises a TypeError when the image is null.
showFullImageCallback ==
  IF TruthyImage(data.image)
    THEN /\ nodes' = [nodes EXCEPT !.loader = FALSE, !.bg = setImage(data.image.url)]
         /\ UNCHANGED threw
    ELSE /\ nodes' = [nodes EXCEPT !.loader = FALSE]
         /\ threw' = TRUE

\* The callback scheduled by stopLoading: loader class and style attribute removed.
stopLoadingCallback ==
  /\ nodes' = [nodes EXCEPT !.loader = FALSE, !.bg = BgUnset]
  /\ UNCHANGED threw

\* LOADER_DELAY has elapsed for the oldest pending timer (equal delays fire in order).
TimerFire ==
  /\ timers # <<>>
  /\ IF Head(timers).kind = "showFullImage" THEN showFullImageCallback ELSE stopLoadingCallback
  /\ att' = [att EXCEPT ![Head(timers).att].phase = "settled"]
  /\ timers' = Tail(timers)
  /\ UNCHANGED <<pc, config, cfgIn, data, notes, edits, vin, vout, key>>

\* Click on the delete button: setImagePlaceholder(); this.data.image = null.
DeleteClick ==
  /\ pc = "rendered"
  /\ nodes' = [nodes EXCEPT !.bg = setImagePlaceholder]
  /\ data' = [data EXCEPT !.image = Null]
  /\ UNCHANGED <<pc, config, cfgIn, att, notes, timers, threw, edits, vin, vout, key>>

\* The host removes the block.  The class has no destroy hook and keeps no timer
\* handle: requests in flight and pending timers stay as they are.
Destroy ==
  /\ pc = "rendered"
  /\ pc' = "removed"
  /\ UNCHANGED <<config, cfgIn, data, nodes, att, notes, timers, threw, edits, vin, vout, key>>

\* ------------------------------------------------------------ save, edits

SaveDataUntrimmed(d, n) ==
  [d EXCEPT !.text = Str(n.text),
            !.title = Str(n.title),
            !.description = Str(n.description)]

\* save(): Object.assign(this.data, { text, title, description }) with the trimmed
\* content of the three regions; image is not touched; this.data is returned.
SaveData(d, n) ==
  [d EXCEPT !.text = Str(Trim(n.text)),
            !.title = Str(Trim(n.title)),
            !.description = Str(Trim(n.description))]

Save ==
  /\ pc = "rendered"
  /\ data' = SaveData(data, nodes)
  /\ UNCHANGED <<pc, config, cfgIn, nodes, att, notes, timers, threw, edits, vin, vout, key>>

\* The user types in one of the contentEditable regions.
EditText ==
  /\ pc = "rendered" /\ edits < MaxEdits
  /\ \E c \in Contents : c # nodes.text /\ nodes' = [nodes EXCEPT !.text = c]
  /\ edits' = edits + 1
  /\ UNCHANGED <<pc, config, cfgIn, data, att, notes, timers, threw, vin, vout, key>>

EditTitle ==
  /\ pc = "rendered" /\ edits < MaxEdits
  /\ \E c \in Contents : c # nodes.title /\ nodes' = [nodes EXCEPT !.title = c]
  /\ edits' = edits + 1
  /\ UNCHANGED <<pc, config, cfgIn, data, att, notes, timers, threw, vin, vout, key>>

EditDescription ==
  /\ pc = "rendered" /\ edits < MaxEdits
  /\ \E c \in Contents : c # nodes.description /\ nodes' = [nodes EXCEPT !.description = c]
  /\ edits' = edits + 1
  /\ UNCHANGED <<pc, config, cfgIn, data, att, notes, timers, threw, vin, vout, key>>

\* ------------------------------------------------------------------ keyup

\* The line break some browsers leave in an emptied contentEditable element.
Br == "<br>"

\* innerHTML of the text region after a key press.
HtmlContents == {<<>>, <<Br>>, <<"a">>, <<"a", Br>>, <<Space>>}

\* textContent of markup: the text without the elements.
TextContent(html) == SelectSeq(html, LAMBDA c : c # Br)

\* KeyboardEvent.code of the key released.
Keys == {"Backspace", "Delete", "KeyA", "Enter"}

\* render() registers this.onKeyUp as it is, unbound: the listener runs with the
\* text element as its this, not the block.
KeyUpThis == "element"

\* onKeyUp(e): other keys return at once; for Backspace and Delete this.nodes.text
\* is read, a TypeError unless this is the block; an empty textContent then
\* empties innerHTML.
onKeyUp(code, self) ==
  IF code # "Backspace" /\ code # "Delete"
    THEN UNCHANGED <<nodes, threw>>
    ELSE IF self # "block"
      THEN threw' = TRUE /\ UNCHANGED nodes
      ELSE IF TextContent(nodes.text) = <<>>
        THEN nodes' = [nodes EXCEPT !.text = <<>>] /\ UNCHANGED threw
        ELSE UNCHANGED <<nodes, threw>>

\* A keyup event reaches the text region.
KeyUp ==
  /\ pc = "rendered" /\ edits < MaxEdits
  /\ \E code \in Keys : key' = code /\ onKeyUp(code, KeyUpThis)
  /\ edits' = edits + 1
  /\ UNCHANGED <<pc, config, cfgIn, data, att, notes, timers, vin, vout>>

\* ---------------------------------------------------------------- validate

validateUntrimmed(sd) ==
  IF ~sd.text.def THEN "threw"
  ELSE IF sd.text.val # <<>> THEN "true" ELSE "false"

\* validate(savedData): savedData.text.trim() !== ''; a missing text raises a TypeError.
validate(sd) ==
  IF ~sd.text.def THEN "threw"
  ELSE IF Trim(sd.text.val) # <<>> THEN "true" ELSE "false"

Validate ==
  /\ vout = "none"
  /\ vout' = validate(vin)
  /\ UNCHANGED <<pc, config, cfgIn, data, nodes, att, notes, timers, threw, edits, vin, key>>

\* ------------------------------------------------------------- saved data

\* The data of a new block: the host passes an empty object.
EmptyObject == [text |-> Absent, title |-> Absent, description |-> Absent, image |-> Undefined]

\* Data a block was saved with and is restored from.
SavedData ==
  {EmptyObject,
   [text |-> Str(<<"a">>), title |-> Str(<<"a">>), description |-> Str(<<"a">>), image |-> File("u1")]}

\* Saved data as it may come back from storage, malformed records included.
RestoredData ==
  [text : {Absent, Str(<<>>), Str(<<"a">>)},
   title : {Absent, Str(<<"a">>)},
   description : {Absent, Str(<<"a">>)},
   image : {Undefined, Null, File(NoUrl), File("u1")}]

\* Arguments of validate: the text is a string, the other fields are anything.
ValidateInputs ==
  [text : {Str(c) : c \in Contents \cup {<<"a">>, <<Space, Space>>, <<"a", Space, "a">>}},
   title : {Absent, Str(<<>>), Str(<<"a">>)},
   description : {Absent, Str(<<>>), Str(<<"a">>)},
   image : {Undefined, Null, File(NoUrl), File("u1")}]

\* --------------------------------------------------------- specifications

Blank ==
  /\ nodes = NoNodes
  /\ att = [a \in Attempts |-> NewAttempt]
  /\ notes = [a \in Attempts |-> 0]
  /\ timers = <<>>
  /\ threw = FALSE
  /\ edits = 0
  /\ vin = EmptyObject
  /\ vout = "none"
  /\ key = "none"

\* The block after construction with an empty config object.
Init ==
  /\ pc = "constructed"
  /\ cfgIn = EmptyConfig
  /\ config = ResolveConfig(EmptyConfig)
  /\ data \in SavedData
  /\ Blank

Next ==
  \/ Render
  \/ ImageClick
  \/ CancelPrompt
  \/ FilePicked
  \/ Response
  \/ TimerFire
  \/ DeleteClick
  \/ Save
  \/ EditText
  \/ EditTitle
  \/ EditDescription

Spec == Init /\ [][Next]_vars

\* The block with its callbacks invoked on any response, well-formed or not.
NextDeliver ==
  \/ Render
  \/ ImageClick
  \/ CancelPrompt
  \/ FilePicked
  \/ Delivery
  \/ TimerFire
  \/ DeleteClick
  \/ Save
  \/ EditText
  \/ EditTitle
  \/ EditDescription

SpecDeliver == Init /\ [][NextDeliver]_vars

\* The block until and after its removal by the host.
NextDestroy ==
  \/ Render
  \/ ImageClick
  \/ CancelPrompt
  \/ FilePicked
  \/ Response
  \/ TimerFire
  \/ DeleteClick
  \/ Save
  \/ EditText
  \/ EditTitle
  \/ EditDescription
  \/ Destroy

SpecDestroy == Init /\ [][NextDestroy]_vars

\* The rendered block with the text region as a key press has left it.
InitKeyUp ==
  /\ pc = "rendered"
  /\ cfgIn = EmptyConfig
  /\ config = ResolveConfig(EmptyConfig)
  /\ data \in RestoredData
  /\ \E c \in HtmlContents : nodes = [RenderNodes(data) EXCEPT !.text = c]
  /\ att = [a \in Attempts |-> NewAttempt]
  /\ notes = [a \in Attempts |-> 0]
  /\ timers = <<>>
  /\ threw = FALSE
  /\ edits = 0
  /\ vin = EmptyObject
  /\ vout = "none"
  /\ key = "none"

NextKeyUp == KeyUp

SpecKeyUp == InitKeyUp /\ [][NextKeyUp]_vars

\* Construction and first render, over every config argument and restored data.
InitLifecycle ==
  /\ pc = "new"
  /\ cfgIn \in ConfigInputs
  /\ config = [f \in Fields |-> FieldAbsent]
  /\ data \in RestoredData
  /\ Blank

NextLifecycle ==
  \/ Constructor
  \/ Render

SpecLifecycle == InitLifecycle /\ [][NextLifecycle]_vars

\* validate applied to every argument.
InitValidate ==
  /\ pc = "constructed"
  /\ cfgIn = EmptyConfig
  /\ config = ResolveConfig(EmptyConfig)
  /\ data = EmptyObject
  /\ nodes = NoNodes
  /\ att = [a \in Attempts |-> NewAttempt]
  /\ notes = [a \in Attempts |-> 0]
  /\ timers = <<>>
  /\ threw = FALSE
  /\ edits = 0
  /\ vin \in ValidateInputs
  /\ vout = "none"
  /\ key = "none"

NextValidate == Validate

SpecValidate == InitValidate /\ [][NextValidate]_vars

\* ----------------------------------------------------------------- claims

Calls(a) == att[a].ok + att[a].err

\* The step in which the delayed callback of attempt a runs.
Settles(a) == att[a].phase = "called" /\ att'[a].phase = "settled"

\* C1: an upload attempt that ends in a failure outcome makes exactly one
\* notifier call of style 'error'; neither its failure callback nor its delayed
\* step changes data.image; and when its delay has elapsed the loader is removed
\* and the image region is unstyled (Empty).
C1_FailureHandled ==
  /\ [](\A a \in Attempts : att[a].err > 0 => notes[a] = 1)
  /\ [](\A a \in Attempts : att[a].err = 0 => notes[a] = 0)
  /\ [][\A a \in Attempts :
          att'[a].err > att[a].err => data'.image = data.image /\ notes'[a] = 1]_vars
  /\ [][\A a \in Attempts :
          (Settles(a) /\ att[a].err > 0) =>
             /\ ~nodes'.loader
             /\ nodes'.bg = BgUnset
             /\ VisualStateOf(nodes') = "Empty"
             /\ notes'[a] = 1
             /\ data'.image = data.image]_vars

\* A failed re-upload over an existing image has settled: one notification, region
\* unstyled, image kept.
C1_Witness ==
  \E a \in Attempts :
    /\ att[a].phase = "settled" /\ att[a].err = 1
    /\ notes[a] = 1
    /\ VisualState = "Empty" /\ nodes.bg = BgUnset
    /\ data.image = File("u1")

\* C2: for every upload attempt whose response is the well-formed success with
\* url u, when the delay after the success callback has elapsed the region is
\* Loaded showing u and data.image.url = u.
C2_SuccessShown ==
  [][\A a \in Attempts :
       (Settles(a) /\ att[a].ok > 0) =>
          /\ VisualStateOf(nodes') = "Loaded"
          /\ nodes'.bg = BgUrl(att[a].url)
          /\ data'.image = File(att[a].url)]_vars

\* C3: in every reachable state data.image is null or a record with a url.
C3_ImageNullOrRecord ==
  \/ data.image = Null
  \/ data.image.tag = "file" /\ TruthyUrl(data.image.url)

\* C4: a delete click in any state where data.image is non-null sets it to null
\* and leaves the region in the Empty (placeholder) state in that step, starting
\* no upload and scheduling no timer.
C4_DeleteResets ==
  [][(DeleteClick /\ TruthyImage(data.image)) =>
       /\ data'.image = Null
       /\ VisualStateOf(nodes') = "Empty"
       /\ nodes'.bg = BgPlaceholder
       /\ att' = att
       /\ timers' = timers]_vars

\* C5: for every attempt, the preview-start callback, which puts the block into
\* Loading, has fired in an earlier step than its success or failure callback.
C5_PreviewFirst ==
  /\ [](\A a \in Attempts : Calls(a) > 0 => att[a].previewed)
  /\ [][\A a \in Attempts :
          (att'[a].ok + att'[a].err > Calls(a)) => att[a].previewed]_vars
  /\ [][\A a \in Attempts :
          (~att[a].previewed /\ att'[a].previewed) =>
             VisualStateOf(nodes') = "Loading" /\ Calls(a) = 0]_vars

\* A success and a failure have each been delivered to a previewed attempt.
C5_Witness ==
  \E a, b \in Attempts :
    /\ att[a].ok = 1 /\ att[a].previewed
    /\ att[b].err = 1 /\ att[b].previewed

\* C6: for every attempt at most one terminal callback is invoked, and an attempt
\* whose request has completed has had exactly one of onUpload and onError.
C6_OneTerminalCallback ==
  \A a \in Attempts :
    /\ Calls(a) <= 1
    /\ att[a].phase \in {"called", "settled"} => Calls(a) = 1
    /\ att[a].phase \in {"idle", "prompt", "cancelled", "sending"} => Calls(a) = 0

\* One attempt has ended in onUpload and another in onError, both settled.
C6_Witness ==
  \E a, b \in Attempts :
    /\ att[a].phase = "settled" /\ att[a].ok = 1 /\ att[a].err = 0
    /\ att[b].phase = "settled" /\ att[b].ok = 0 /\ att[b].err = 1

\* C7: validate returns true exactly when the text holds a character that is
\* not white space, whatever image, title and description are.
C7_ValidateIffText ==
  vout # "none" =>
    /\ vout \in {"true", "false"}
    /\ vout = "true" <=> \E i \in 1..Len(vin.text.val) : vin.text.val[i] \notin WhiteSpace

\* validate has rejected an all-blank text of a record that has an image and a title.
C7_Witness ==
  /\ vout = "false"
  /\ vin.text = Str(<<Space, Space>>)
  /\ vin.image = File("u1")
  /\ vin.title = Str(<<"a">>)

\* No upload in flight, no file prompt open, no delay timer pending.
Quiescent ==
  /\ timers = <<>>
  /\ \A a \in Attempts : att[a].phase \in {"idle", "cancelled", "settled"}

\* C8: save followed by construction and render from the returned data shows the
\* same text, title and description and the same image state (same url, or the
\* placeholder).  Stated for the block at rest, the case most favourable to the
\* claim, and with the texts compared up to surrounding white space.
C8_RoundTrip ==
  (pc = "rendered" /\ Quiescent) =>
    LET again == RenderNodes(SaveData(data, nodes)) IN
      /\ Trim(again.text) = Trim(nodes.text)
      /\ Trim(again.title) = Trim(nodes.title)
      /\ Trim(again.description) = Trim(nodes.description)
      /\ VisualStateOf(again) = VisualState
      /\ VisualState = "Loaded" => again.bg = nodes.bg

\* C9: rendering saved data whose image record has no url leaves the region in
\* the Empty (placeholder) state.
C9_MalformedDegrades ==
  (pc = "rendered" /\ data.image.tag = "file" /\ ~TruthyUrl(data.image.url)) =>
    VisualState = "Empty" /\ nodes.bg = BgPlaceholder

\* C10: construction with the config missing, or with any of its fields
\* missing, does not fail and gives every missing field its default.
C10_ConfigDefaults ==
  pc # "new" =>
    /\ pc # "threw"
    /\ \A f \in Fields : cfgIn.fields[f] = FieldAbsent => config[f] = Default[f]

\* r is s without its leading and trailing white space.
IsTrimOf(r, s) ==
  /\ r = <<>> \/ (r[1] \notin WhiteSpace /\ r[Len(r)] \notin WhiteSpace)
  /\ \E i \in 0..Len(s) :
       /\ i + Len(r) <= Len(s)
       /\ SubSeq(s, i + 1, i + Len(r)) = r
       /\ \A k \in 1..Len(s) : (k <= i \/ k > i + Len(r)) => s[k] \in WhiteSpace

\* C11: save, in any visual state, sets text, title and description of the data
\* to the trimmed content of the three regions (an empty region gives the empty
\* string) and changes neither data.image nor the regions nor the image region.
C11_SaveFrame ==
  [][Save =>
       /\ data'.text.def /\ IsTrimOf(data'.text.val, nodes.text)
       /\ data'.title.def /\ IsTrimOf(data'.title.val, nodes.title)
       /\ data'.description.def /\ IsTrimOf(data'.description.val, nodes.description)
       /\ nodes.text = <<>> => data'.text = Str(<<>>)
       /\ nodes.title = <<>> => data'.title = Str(<<>>)
       /\ nodes.description = <<>> => data'.description = Str(<<>>)
       /\ data'.image = data.image
       /\ nodes' = nodes
       /\ VisualStateOf(nodes') = VisualState]_vars

\* save has run while the loader was shown: a blank title was saved as the empty
\* string, the image and the Loading state are as they were.
C11_Witness ==
  /\ VisualState = "Loading"
  /\ nodes.title = <<Space>>
  /\ data.title = Str(<<>>)
  /\ data.image = File("u1")

\* Uploads in flight: the request has been sent and has not completed.
InFlight == {a \in Attempts : att[a].phase = "sending"}

\* C12: at most one upload is in flight at any time; no clicks on the image
\* region start a second upload while the block is Loading for an earlier one.
C12_SingleFlight == Cardinality(InFlight) <= 1

\* The step in which the callback scheduled by showFullImage runs.
ShowFires ==
  /\ timers # <<>>
  /\ Head(timers).kind = "showFullImage"
  /\ timers' = Tail(timers)

\* C13: the delayed callback of showFullImage never runs with data.image null,
\* and so never fails reading data.image.url, also when a delete click came
\* after the success callback and before the delay elapsed.
C13_ShowNeverOnNull ==
  [][ShowFires => (data.image # Null /\ TruthyImage(data.image) /\ ~threw')]_vars

\* C15: whenever the block is at rest the image region shows an image exactly
\* when data.image is non-null, the url shown is data.image.url, and the loader
\* is not shown.
C15_VisualAgreesWithData ==
  (pc = "rendered" /\ Quiescent) =>
    /\ ~nodes.loader
    /\ TruthyImage(data.image) <=> nodes.bg.kind = "url"
    /\ TruthyImage(data.image) => nodes.bg = BgUrl(data.image.url)

\* C16: the success callback sets data.image to the returned file in its own step
\* and leaves the region as it is (loader still shown, image not rendered); no
\* terminal callback, success or failure, removes the loader in its own step; the
\* loader is removed and an uploaded image rendered only by a delayed step.
C16_DelayedReveal ==
  /\ [][\A a \in Attempts :
          (att'[a].ok + att'[a].err > Calls(a)) =>
             /\ nodes' = nodes
             /\ Len(timers') = Len(timers) + 1
             /\ att'[a].ok > att[a].ok =>
                  /\ data'.image = File(att'[a].url)
                  /\ timers'[Len(timers')] = [kind |-> "showFullImage", att |-> a]]_vars
  /\ [][(nodes.loader /\ ~nodes'.loader) => (timers # <<>> /\ timers' = Tail(timers))]_vars
  /\ [][(nodes'.bg # nodes.bg /\ nodes'.bg.kind = "url") => (pc = "constructed" \/ ShowFires)]_vars

\* The success callback has stored the new file, the loader is still shown, the
\* image is not rendered yet and the delayed step is pending.
C16_Witness ==
  \E a \in Attempts :
    /\ att[a].phase = "called" /\ att[a].ok = 1 /\ att[a].url = "u2"
    /\ data.image = File("u2")
    /\ nodes.loader /\ nodes.bg = BgNone
    /\ timers = <<[kind |-> "showFullImage", att |-> a]>>

\* C14: a block that has entered Loading leaves it: once every upload started has
\* had its terminal response delivered, whatever the response, and the pending
\* timers have fired, the loader is not shown.
C14_LoaderLeaves ==
  (/\ timers = <<>>
   /\ \A a \in Attempts : att[a].phase \notin {"prompt", "sending"}) =>
    ~nodes.loader

\* C17: no delayed loader-removal callback, scheduled by an upload success or
\* failure, runs after the host has removed the block.
C17_NoTimerAfterRemoval ==
  [][(timers # <<>> /\ timers' = Tail(timers)) => pc # "removed"]_vars

\* C18: a Backspace or Delete keyup on a text region whose text content is empty
\* completes without error and leaves the region's markup the empty string; any
\* other key, or a content that is not empty, leaves the markup unchanged.
C18_KeyUpNormalises ==
  [][KeyUp =>
       IF key' \in {"Backspace", "Delete"} /\ TextContent(nodes.text) = <<>>
         THEN ~threw' /\ nodes'.text = <<>>
         ELSE nodes'.text = nodes.text]_vars

====
